---- MODULE Spec2Model ----
(***************************************************************************)
(* TritonHTTP: request parser (ReadRequest), response builder              *)
(* (HandleGoodRequest, HandleOK, HandleNotFound, HandleBadRequest),        *)
(* response writer (Response.Write) and the per-connection loop            *)
(* (HandleConnection).                                                     *)
(*                                                                         *)
(* The repository holds two copies of the parser and of the server:        *)
(*   build "unnamed": src/unnamed/part_001 (parser), part_000 (server)     *)
(*   build "pkg":     src/pkg/tritonhttp/request.go (parser) and the       *)
(*                    server part of src/pkg/tritonhttp/response.go        *)
(* Response.Write exists once (src/pkg/tritonhttp/response.go:29-116).     *)
(* Strings are sequences of one-character strings.                         *)
(***************************************************************************)
EXTENDS Integers, Sequences, FiniteSets, TLC

VARIABLES
    build,      \* which copy of the package runs
    DocRoot,    \* Server.DocRoot
    fs,         \* filesystem: cleaned path -> [kind, size]
    fsOps,      \* number of filesystem changes made by other processes
    peers,      \* connections the environment will open
    panicked,   \* the server process died of a run-time panic
    pc,         \* per connection: position of HandleConnection
    inp,        \* per connection: what the peer still sends
    req,        \* per connection: the request of the current cycle (<<>> = nil)
    res,        \* per connection: the response of the current cycle (<<>> = none)
    okPath,     \* per connection: the path HandleGoodRequest hands to HandleOK
    werr,       \* per connection: res.Write has failed in this cycle
    broken,     \* per connection: the peer has reset it, writes to it fail
    out,        \* per connection: what has been written to the connection
    rlog,       \* per connection: the outcome of every ReadRequest call so far
    pin,        \* input of a stand-alone call (parser or builder harness)
    pout        \* result of that call (<<>> = not called yet)

vars == <<build, DocRoot, fs, fsOps, peers, panicked, pc, inp, req, res, okPath, werr,
          broken, out, rlog, pin, pout>>

connVars == <<peers, panicked, pc, inp, req, res, okPath, werr, broken, out, rlog>>

-----------------------------------------------------------------------------
(* Strings *)

GET == <<"G", "E", "T">>
HTTP11 == <<"H", "T", "T", "P", "/", "1", ".", "1">>
INDEXHTML == <<"i", "n", "d", "e", "x", ".", "h", "t", "m", "l">>
HOST == <<"H", "o", "s", "t">>
CONNECTION == <<"C", "o", "n", "n", "e", "c", "t", "i", "o", "n">>
CLOSE == <<"c", "l", "o", "s", "e">>
DATE == <<"D", "a", "t", "e">>
LASTMODIFIED == <<"L", "a", "s", "t", "-", "M", "o", "d", "i", "f", "i", "e", "d">>
CONTENTTYPE == <<"C", "o", "n", "t", "e", "n", "t", "-", "T", "y", "p", "e">>
CONTENTLENGTH == <<"C", "o", "n", "t", "e", "n", "t", "-", "L", "e", "n", "g", "t", "h">>

LowerLetters == <<"a", "b", "c", "d", "e", "f", "g", "h", "i", "j", "k", "l", "m",
                  "n", "o", "p", "q", "r", "s", "t", "u", "v", "w", "x", "y", "z">>
UpperLetters == <<"A", "B", "C", "D", "E", "F", "G", "H", "I", "J", "K", "L", "M",
                  "N", "O", "P", "Q", "R", "S", "T", "U", "V", "W", "X", "Y", "Z">>
Digits == {"0", "1", "2", "3", "4", "5", "6", "7", "8", "9"}

Range(s) == {s[i] : i \in DOMAIN s}

IsLower(c) == c \in Range(LowerLetters)
IsUpper(c) == c \in Range(UpperLetters)

ToUpper(c) ==
    IF IsLower(c)
    THEN UpperLetters[CHOOSE i \in DOMAIN LowerLetters : LowerLetters[i] = c]
    ELSE c

ToLower(c) ==
    IF IsUpper(c)
    THEN LowerLetters[CHOOSE i \in DOMAIN UpperLetters : UpperLetters[i] = c]
    ELSE c

\* strings.HasPrefix
HasPrefix(s, p) == Len(p) <= Len(s) /\ SubSeq(s, 1, Len(p)) = p

\* strings.HasSuffix
HasSuffix(s, p) == Len(p) <= Len(s) /\ SubSeq(s, Len(s) - Len(p) + 1, Len(s)) = p

\* strings.Contains for a one-character substring
Contains(s, c) == \E i \in DOMAIN s : s[i] = c

\* strings.Index for a one-character substring (0 = absent)
Index(s, c) ==
    IF Contains(s, c) THEN CHOOSE i \in DOMAIN s : s[i] = c /\ \A j \in 1..(i - 1) : s[j] # c
    ELSE 0

\* strings.SplitN(s, c, n) for n >= 1: at most n pieces, the last holds the rest
RECURSIVE SplitN(_, _, _)
SplitN(s, c, n) ==
    IF n <= 1 \/ ~Contains(s, c) THEN <<s>>
    ELSE <<SubSeq(s, 1, Index(s, c) - 1)>>
         \o SplitN(SubSeq(s, Index(s, c) + 1, Len(s)), c, n - 1)

\* strings.TrimLeft(s, " ")
RECURSIVE TrimLeft(_)
TrimLeft(s) == IF s # <<>> /\ Head(s) = " " THEN TrimLeft(Tail(s)) ELSE s

WhiteSpace == {" ", "\t", "\n", "\r"}

\* strings.TrimSpace
RECURSIVE TrimSpace(_)
TrimSpace(s) ==
    IF s # <<>> /\ Head(s) \in WhiteSpace THEN TrimSpace(Tail(s))
    ELSE IF s # <<>> /\ s[Len(s)] \in WhiteSpace THEN TrimSpace(SubSeq(s, 1, Len(s) - 1))
    ELSE s

\* Go map assignment m[k] = v and delete(m, k); a map is a function on its keys
MapSet(m, k, v) == [x \in (DOMAIN m) \cup {k} |-> IF x = k THEN v ELSE m[x]]
MapDelete(m, k) == [x \in (DOMAIN m) \ {k} |-> m[x]]
EmptyMap == [x \in {} |-> <<>>]

-----------------------------------------------------------------------------
(* The byte stream of a connection, as ReadLine sees it: the complete lines  *)
(* (without their CRLF) the peer sends, then bytes of an unfinished line,    *)
(* then the error the read ends with ("EOF" or "timeout").                   *)

Stream(lines, partial, end) == [lines |-> lines, partial |-> partial, end |-> end]

\* ReadLine: the next line without its CRLF, or the bytes read so far and the
\* read error
ReadLine(st) ==
    IF st.lines # <<>>
    THEN [line |-> Head(st.lines), err |-> "nil", rest |-> [st EXCEPT !.lines = Tail(@)]]
    ELSE [line |-> st.partial, err |-> st.end, rest |-> [st EXCEPT !.partial = <<>>]]

\* CanonicalHeaderKey: hyphen-delimited segments, each capitalized
RECURSIVE Canonical(_, _)
Canonical(s, upper) ==
    IF s = <<>> THEN <<>>
    ELSE <<IF upper THEN ToUpper(Head(s)) ELSE ToLower(Head(s))>>
         \o Canonical(Tail(s), Head(s) = "-")

CanonicalHeaderKey(s) == Canonical(s, TRUE)

ReadErrors == {"EOF", "timeout"}

\* a failed ReadRequest: nil request, the error, what is left of the stream
Fail(bytesReceived, err, rest) ==
    [req |-> <<>>, bytesReceived |-> bytesReceived, err |-> err, rest |-> rest]

\* the checks of the request line, in the order of the code; "nil" = accepted
RequestLineErr(line) ==
    LET fields == SplitN(line, " ", 3) IN
    IF Len(fields) # 3 THEN "fields"
    ELSE IF fields[1] # GET THEN "method"
    ELSE IF Len(fields[1]) = 0 \/ Len(fields[2]) = 0 \/ Len(fields[3]) = 0 THEN "empty"
    ELSE IF Contains(fields[1], " ") \/ Contains(fields[2], " ") \/ Contains(fields[3], " ")
         THEN "spaces"
    ELSE IF ~HasPrefix(fields[2], <<"/">>) THEN "url"
    ELSE IF fields[3] # HTTP11 THEN "proto"
    ELSE "nil"

Request(method, url, proto) ==
    [Method |-> method, URL |-> url, Proto |-> proto, Header |-> EmptyMap,
     Host |-> <<>>, Close |-> FALSE]

HeaderNameChar(c) == c \in Digits \/ IsLower(c) \/ IsUpper(c) \/ c = "-"

\* the header loop of ReadRequest (src/unnamed/part_001)
RECURSIVE ReadHeaders(_, _, _, _)
ReadHeaders(st, r, checkConn, checkHost) ==
    LET rl == ReadLine(st)
        h == SplitN(rl.line, ":", 2)
        key == CanonicalHeaderKey(h[1])
        value == TrimLeft(h[2])
    IN  IF rl.err # "nil" THEN Fail(TRUE, rl.err, rl.rest)
        ELSE IF rl.line = <<>>
             THEN [req |-> <<r>>, checkConn |-> checkConn, checkHost |-> checkHost,
                   err |-> "nil", rest |-> rl.rest]
        ELSE IF Len(h) # 2 THEN Fail(TRUE, "hformat", rl.rest)
        ELSE IF HasSuffix(h[1], <<" ">>) \/ HasPrefix(h[1], <<" ">>)
             THEN Fail(TRUE, "hspace", rl.rest)
        ELSE IF Len(TrimSpace(h[1])) = 0 THEN Fail(TRUE, "hempty", rl.rest)
        ELSE IF \E i \in DOMAIN h[1] : ~HeaderNameChar(h[1][i])
             THEN Fail(TRUE, "hchar", rl.rest)
        ELSE ReadHeaders(rl.rest,
                         [r EXCEPT !.Header = MapSet(@, key, value),
                                   !.Host = IF key = HOST THEN value ELSE @],
                         checkConn \/ key = CONNECTION,
                         checkHost \/ key = HOST)

\* the special headers, after the header block has ended
SpecialHeaders(r, checkConn, checkHost, rest) ==
    LET r1 == IF checkConn
              THEN [r EXCEPT !.Close = (r.Header[CONNECTION] = CLOSE),
                             !.Header = MapDelete(@, CONNECTION)]
              ELSE r
    IN  IF checkHost
        THEN [req |-> <<[r1 EXCEPT !.Header = MapDelete(@, HOST)]>>,
              bytesReceived |-> TRUE, err |-> "nil", rest |-> rest]
        ELSE Fail(TRUE, "nohost", rest)

\* ReadRequest that reads through a buffered reader of its own: what that
\* reader has buffered beyond the request is lost when the call returns
ReadRequestOwnReader(st) ==
    LET rl == ReadLine(st)
        fields == SplitN(rl.line, " ", 3)
        hs == ReadHeaders(rl.rest, Request(fields[1], fields[2], fields[3]), FALSE, FALSE)
        r == IF rl.err # "nil" THEN Fail(Len(rl.line) # 0, rl.err, rl.rest)
             ELSE IF RequestLineErr(rl.line) # "nil"
                  THEN Fail(TRUE, RequestLineErr(rl.line), rl.rest)
             ELSE IF hs.err # "nil" THEN hs
             ELSE SpecialHeaders(hs.req[1], hs.checkConn, hs.checkHost, hs.rest)
    IN  [r EXCEPT !.rest.lines = <<>>]

\* ReadRequest of src/unnamed/part_001
ReadRequest(st) ==
    LET rl == ReadLine(st)
        fields == SplitN(rl.line, " ", 3)
        hs == ReadHeaders(rl.rest, Request(fields[1], fields[2], fields[3]), FALSE, FALSE)
    IN  IF rl.err # "nil" THEN Fail(Len(rl.line) # 0, rl.err, rl.rest)
        ELSE IF RequestLineErr(rl.line) # "nil"
             THEN Fail(TRUE, RequestLineErr(rl.line), rl.rest)
        ELSE IF hs.err # "nil" THEN hs
        ELSE SpecialHeaders(hs.req[1], hs.checkConn, hs.checkHost, hs.rest)

\* the header loop of ReadRequest (src/pkg/tritonhttp/request.go)
RECURSIVE ReadHeadersPkg(_, _)
ReadHeadersPkg(st, r) ==
    LET rl == ReadLine(st)
        h == SplitN(rl.line, ":", 2)
    IN  IF rl.err # "nil" THEN Fail(TRUE, rl.err, rl.rest)
        ELSE IF rl.line = <<>>
             THEN [req |-> <<r>>, err |-> "nil", rest |-> rl.rest]
        ELSE IF Len(h) # 2 THEN Fail(TRUE, "hformat", rl.rest)
        ELSE IF HasSuffix(h[1], <<" ">>) \/ HasPrefix(h[1], <<" ">>)
             THEN Fail(TRUE, "hspace", rl.rest)
        ELSE IF Len(TrimSpace(h[1])) = 0 THEN Fail(TRUE, "hempty", rl.rest)
        ELSE ReadHeadersPkg(rl.rest,
                            [r EXCEPT !.Host = IF h[1] = HOST THEN h[2] ELSE @,
                                      !.Close = IF h[1] = CONNECTION /\ h[2] = CLOSE
                                                THEN TRUE ELSE @,
                                      !.Header = MapSet(@, h[1], h[2])])

\* ReadRequest of src/pkg/tritonhttp/request.go
ReadRequestPkg(st) ==
    LET rl == ReadLine(st)
        fields == SplitN(rl.line, " ", 3)
        url == IF HasSuffix(fields[2], <<"/">>) THEN fields[2] \o INDEXHTML ELSE fields[2]
        hs == ReadHeadersPkg(rl.rest, Request(fields[1], url, fields[3]))
    IN  IF rl.err # "nil" THEN Fail(Len(rl.line) # 0, rl.err, rl.rest)
        ELSE IF RequestLineErr(rl.line) # "nil"
             THEN Fail(TRUE, RequestLineErr(rl.line), rl.rest)
        ELSE IF hs.err # "nil" THEN hs
        ELSE [req |-> <<[hs.req[1] EXCEPT !.Header = MapDelete(@, CONNECTION)]>>,
              bytesReceived |-> FALSE, err |-> "nil", rest |-> hs.rest]

\* the parser of the running build
ReadRequestOf(b, st) == IF b = "pkg" THEN ReadRequestPkg(st) ELSE ReadRequest(st)

-----------------------------------------------------------------------------
(* Paths and the filesystem *)

\* strings.Split(s, c): all pieces
RECURSIVE Split(_, _)
Split(s, c) ==
    IF ~Contains(s, c) THEN <<s>>
    ELSE <<SubSeq(s, 1, Index(s, c) - 1)>> \o Split(SubSeq(s, Index(s, c) + 1, Len(s)), c)

DOTDOT == <<".", ".">>

\* the components Clean keeps, as a stack (last = innermost)
RECURSIVE CleanParts(_, _, _)
CleanParts(parts, stack, rooted) ==
    IF parts = <<>> THEN stack
    ELSE LET p == Head(parts) IN
         IF p = <<>> \/ p = <<".">> THEN CleanParts(Tail(parts), stack, rooted)
         ELSE IF p = DOTDOT
              THEN IF stack # <<>> /\ stack[Len(stack)] # DOTDOT
                   THEN CleanParts(Tail(parts), SubSeq(stack, 1, Len(stack) - 1), rooted)
                   ELSE IF rooted THEN CleanParts(Tail(parts), stack, rooted)
                   ELSE CleanParts(Tail(parts), Append(stack, p), rooted)
         ELSE CleanParts(Tail(parts), Append(stack, p), rooted)

RECURSIVE JoinParts(_)
JoinParts(parts) ==
    IF parts = <<>> THEN <<>>
    ELSE IF Len(parts) = 1 THEN parts[1]
    ELSE parts[1] \o <<"/">> \o JoinParts(Tail(parts))

\* filepath.Clean
Clean(path) ==
    LET rooted == HasPrefix(path, <<"/">>)
        kept == JoinParts(CleanParts(Split(path, "/"), <<>>, rooted))
    IN  IF rooted THEN <<"/">> \o kept
        ELSE IF kept = <<>> THEN <<".">>
        ELSE kept

\* filepath.Join of two elements
Join(a, b) ==
    IF a = <<>> /\ b = <<>> THEN <<>>
    ELSE IF a = <<>> THEN Clean(b)
    ELSE IF b = <<>> THEN Clean(a)
    ELSE Clean(a \o <<"/">> \o b)

\* os.Stat: "ok" with the file's info, "notexist" (os.IsNotExist holds), or
\* "notdir" (a component of the path is a regular file: the error is ENOTDIR,
\* os.IsNotExist is false and the FileInfo is nil)
Stat(f, path) ==
    IF path \in DOMAIN f THEN [err |-> "nil", kind |-> f[path].kind, size |-> f[path].size]
    ELSE IF \E i \in 1..(Len(path) - 1) :
                /\ path[i + 1] = "/"
                /\ SubSeq(path, 1, i) \in DOMAIN f
                /\ f[SubSeq(path, 1, i)].kind = "file"
         THEN [err |-> "notdir", kind |-> "none", size |-> 0]
    ELSE [err |-> "notexist", kind |-> "none", size |-> 0]

-----------------------------------------------------------------------------
(* Responses *)

statusOK == 200
statusBadRequest == 400
statusNotFound == 404

OK == <<"O", "K">>
BADREQUEST == <<"B", "a", "d", " ", "R", "e", "q", "u", "e", "s", "t">>
NOTFOUND == <<"N", "o", "t", " ", "F", "o", "u", "n", "d">>

statusText == [c \in {statusOK, statusBadRequest, statusNotFound} |->
                  IF c = statusOK THEN OK
                  ELSE IF c = statusBadRequest THEN BADREQUEST
                  ELSE NOTFOUND]

\* FormatTime(time.Now()) and FormatTime(file.ModTime()): the clock is not modelled
NOW == <<"n", "o", "w">>
MTIME == <<"m", "t", "i", "m", "e">>

DOTHTML == <<".", "h", "t", "m", "l">>
TEXTHTML == <<"t", "e", "x", "t", "/", "h", "t", "m", "l">>
OCTETSTREAM == <<"a", "p", "p", "l", "i", "c", "a", "t", "i", "o", "n", "/",
                 "o", "c", "t", "e", "t", "-", "s", "t", "r", "e", "a", "m">>

\* MIMETypeByExtension: a table with a default for unknown extensions
MIMETypeByExtension(ext) == IF ext = DOTHTML THEN TEXTHTML ELSE OCTETSTREAM

DigitSeq == <<"0", "1", "2", "3", "4", "5", "6", "7", "8", "9">>

\* strconv.Itoa for n >= 0
RECURSIVE Itoa(_)
Itoa(n) == IF n < 10 THEN <<DigitSeq[n + 1]>> ELSE Itoa(n \div 10) \o <<DigitSeq[(n % 10) + 1]>>

\* a Response; Request is <<>> for nil; HeaderIsReqHeader tells that Header is
\* the very map of the request (the same Go map, not a copy)
Response(code, proto, header, request, filePath, shared) ==
    [StatusCode |-> code, Proto |-> proto, Header |-> header, Request |-> request,
     FilePath |-> filePath, HeaderIsReqHeader |-> shared]

\* Response.HandleBadRequest (the same in both builds)
HandleBadRequest ==
    Response(statusBadRequest, HTTP11,
             MapSet(MapSet(EmptyMap, DATE, NOW), CONNECTION, CLOSE), <<>>, <<>>, FALSE)

\* Response.HandleNotFound of src/unnamed/part_000: the response takes the
\* request's own header map and writes into it
HandleNotFound(r) ==
    LET h1 == MapSet(r.Header, DATE, NOW)
        h2 == IF r.Close THEN MapSet(h1, CONNECTION, CLOSE) ELSE h1
    IN  [res |-> Response(statusNotFound, HTTP11, h2, <<>>, <<>>, TRUE),
         req |-> [r EXCEPT !.Header = h2]]

\* Response.HandleNotFound of src/pkg/tritonhttp/response.go
HandleNotFoundPkg(r) ==
    [res |-> Response(statusNotFound, HTTP11,
                      MapSet(MapSet(EmptyMap, DATE, NOW), CONNECTION, CLOSE),
                      <<>>, <<>>, FALSE),
     req |-> r]

\* HandleOK that sets Connection: close whatever the request asks
HandleOKAlwaysClose(r, path, f) ==
    LET file == Stat(f, path)
        parts == SplitN(path, ".", 2)
        h1 == MapSet(MapSet(EmptyMap, DATE, NOW), LASTMODIFIED, MTIME)
        h2 == MapSet(h1, CONTENTTYPE, MIMETypeByExtension(<<".">> \o parts[2]))
        h3 == MapSet(h2, CONTENTLENGTH, Itoa(file.size))
        h4 == MapSet(h3, CONNECTION, CLOSE)
    IN  IF file.err # "nil" \/ Len(parts) < 2 THEN [panic |-> TRUE, res |-> <<>>]
        ELSE [panic |-> FALSE,
              res |-> <<Response(statusOK, r.Proto, h4, <<r>>, path, FALSE)>>]

\* Response.HandleOK (the same in both builds, but for the name of the map):
\* a panic when the second Stat fails (nil FileInfo) or the path has no dot
\* (index 1 of a one-element slice)
HandleOK(r, path, f) ==
    LET file == Stat(f, path)
        parts == SplitN(path, ".", 2)
        h1 == MapSet(MapSet(EmptyMap, DATE, NOW), LASTMODIFIED, MTIME)
        h2 == MapSet(h1, CONTENTTYPE, MIMETypeByExtension(<<".">> \o parts[2]))
        h3 == MapSet(h2, CONTENTLENGTH, Itoa(file.size))
        h4 == IF r.Close THEN MapSet(h3, CONNECTION, CLOSE) ELSE h3
    IN  IF file.err # "nil" \/ Len(parts) < 2 THEN [panic |-> TRUE, res |-> <<>>]
        ELSE [panic |-> FALSE,
              res |-> <<Response(statusOK, r.Proto, h4, <<r>>, path, FALSE)>>]

\* Server.HandleGoodRequest of src/unnamed/part_000, up to the call of HandleOK:
\* "notfound" with the response, "ok" with the path for HandleOK, or "panic"
\* (fi.IsDir() on the nil FileInfo of a Stat error other than not-exist)
HandleGoodRequest(root, r, f) ==
    LET r1 == IF HasSuffix(r.URL, <<"/">>) THEN [r EXCEPT !.URL = @ \o INDEXHTML] ELSE r
        p == Clean(root \o r1.URL)
        fi == Stat(f, p)
        nf == HandleNotFound(r1)
    IN  IF r1.URL = <<>> \/ ~HasPrefix(p, root) \/ fi.err = "notexist"
        THEN [kind |-> "notfound", res |-> <<nf.res>>, req |-> nf.req, path |-> <<>>]
        ELSE IF fi.err # "nil"
             THEN [kind |-> "panic", res |-> <<>>, req |-> r1, path |-> <<>>]
        ELSE IF fi.kind = "dir"
             THEN [kind |-> "notfound", res |-> <<nf.res>>, req |-> nf.req, path |-> <<>>]
        ELSE [kind |-> "ok", res |-> <<>>, req |-> r1, path |-> p]

\* Server.HandleGoodRequest of src/pkg/tritonhttp/response.go: after the prefix
\* check has made res a not-found response the function goes on, and the
\* branch on Stat sets every field of res again
HandleGoodRequestPkg(root, r, f) ==
    LET p == Clean(Join(root, r.URL))
        first == IF ~HasPrefix(p, root) THEN <<HandleNotFoundPkg(r).res>> ELSE <<>>
        fi == Stat(f, p)
        nf == HandleNotFoundPkg(r)
    IN  IF fi.err = "notexist"
        THEN [kind |-> "notfound", res |-> <<nf.res>>, req |-> nf.req, path |-> <<>>]
        ELSE IF fi.err # "nil"
             THEN [kind |-> "panic", res |-> first, req |-> r, path |-> <<>>]
        ELSE IF fi.kind = "dir"
             THEN [kind |-> "notfound", res |-> <<nf.res>>, req |-> nf.req, path |-> <<>>]
        ELSE [kind |-> "ok", res |-> first, req |-> r, path |-> p]

\* the builder of the running build
HandleGoodRequestOf(b, root, r, f) ==
    IF b = "pkg" THEN HandleGoodRequestPkg(root, r, f) ELSE HandleGoodRequest(root, r, f)

-----------------------------------------------------------------------------
(* Response.Write: what each step puts on the connection *)

\* byte order of the characters that occur in header names
AsciiOrder == <<"-">> \o DigitSeq \o UpperLetters \o LowerLetters

Ord(c) == IF Contains(AsciiOrder, c) THEN Index(AsciiOrder, c) ELSE 0

\* a < b in the order of sort.Strings
RECURSIVE StrLess(_, _)
StrLess(a, b) ==
    IF b = <<>> THEN FALSE
    ELSE IF a = <<>> THEN TRUE
    ELSE IF Head(a) = Head(b) THEN StrLess(Tail(a), Tail(b))
    ELSE Ord(Head(a)) < Ord(Head(b))

\* sort.Strings with the comparison the wrong way round
RECURSIVE SortStringsDescending(_)
SortStringsDescending(keys) ==
    IF keys = {} THEN <<>>
    ELSE LET m == CHOOSE k \in keys : \A x \in keys \ {k} : StrLess(x, k)
         IN  <<m>> \o SortStringsDescending(keys \ {m})

\* sort.Strings on the keys of a map
RECURSIVE SortStrings(_)
SortStrings(keys) ==
    IF keys = {} THEN <<>>
    ELSE LET m == CHOOSE k \in keys : \A x \in keys \ {k} : StrLess(k, x)
         IN  <<m>> \o SortStrings(keys \ {m})

\* WriteStatusLine that leaves out the reason phrase
StatusLineNoReason(r) ==
    r.Proto \o <<" ">> \o Itoa(r.StatusCode)

\* WriteStatusLine: "<proto> <code> <reason>"
StatusLine(r) ==
    r.Proto \o <<" ">> \o Itoa(r.StatusCode) \o <<" ">> \o statusText[r.StatusCode]

\* WriteSortedHeaders: the lines "<name>: <value>" in sorted order of the
\* names, then the blank line (each line without its CRLF)
SortedHeaders(r) ==
    LET keys == SortStrings(DOMAIN r.Header)
    IN  [i \in 1..(Len(keys) + 1) |->
            IF i <= Len(keys) THEN keys[i] \o <<":", " ">> \o r.Header[keys[i]]
            ELSE <<>>]

\* os.ReadFile in WriteBody: the length of the data, or -1 for an error
ReadFile(f, p) == IF p \in DOMAIN f /\ f[p].kind = "file" THEN f[p].size ELSE -1

-----------------------------------------------------------------------------
(* What the environment provides: the document root, the files, the peers   *)
(* and what they send                                                       *)

Builds == {"unnamed", "pkg"}
Conns == {1, 2}

MaxReqs == 2
MaxFsOps == 1

SP == <<" ">>
ROOT == <<"/", "w">>
T_INDEX == <<"/">> \o INDEXHTML
T_SLASH == <<"/">>
T_MISSING == <<"/", "m">> \o DOTHTML
T_DIR == <<"/", "d">>
T_NODOT == <<"/", "f">>
T_THROUGH == T_INDEX \o <<"/", "x">>
T_SIBLING == <<"/", ".", ".", "/", "w", "2", "/", "s">> \o DOTHTML
T_OUTSIDE == <<"/", ".", ".", "/", "s">> \o DOTHTML

H_HOST == HOST \o <<":", " ", "t">>
H_CLOSE == CONNECTION \o <<":", " ">> \o CLOSE
H_KEY == <<"K", "e", "y", "1", ":", " ", "v">>
H_NOCOLON == <<"k", "e", "y", "1", " ", "v">>

DocRoots == {ROOT}

\* /w/index.html, the directory /w/d, /w/f (a file without extension), and two
\* files outside the document root: /w2/s.html and /s.html
FileSystems ==
    {[p \in {ROOT, ROOT \o T_INDEX, ROOT \o T_DIR, ROOT \o T_NODOT,
             <<"/", "w", "2">>, <<"/", "w", "2", "/", "s">> \o DOTHTML,
             <<"/", "s">> \o DOTHTML} |->
        IF p \in {ROOT, ROOT \o T_DIR, <<"/", "w", "2">>}
        THEN [kind |-> "dir", size |-> 0]
        ELSE IF p = ROOT \o T_INDEX THEN [kind |-> "file", size |-> 3]
        ELSE [kind |-> "file", size |-> 1]]}

\* files another process removes or truncates while the server runs
Volatile == {ROOT \o T_INDEX}

RequestLine(method, target, proto) == method \o SP \o target \o SP \o proto

\* the lines of one request: request line, header lines, blank line
RequestText(target, headers) ==
    <<RequestLine(GET, target, HTTP11)>> \o headers \o << <<>> >>

Requests ==
    {RequestText(T_INDEX, <<H_HOST>>),
     RequestText(T_INDEX, <<H_HOST, H_CLOSE>>),
     RequestText(T_SLASH, <<H_HOST>>),
     RequestText(T_MISSING, <<H_HOST>>),
     RequestText(T_MISSING, <<H_HOST, H_KEY, H_CLOSE>>),
     RequestText(T_DIR, <<H_HOST, H_KEY>>),
     RequestText(T_NODOT, <<H_HOST>>),
     RequestText(T_THROUGH, <<H_HOST>>),
     RequestText(T_SIBLING, <<H_HOST>>),
     RequestText(T_OUTSIDE, <<H_HOST>>),
     RequestText(T_INDEX, <<>>),
     RequestText(T_INDEX, <<H_HOST, H_NOCOLON>>),
     <<RequestLine(GET \o <<"T">>, T_INDEX, HTTP11), H_HOST, <<>>>>}

\* how a stream ends: lines of an unfinished request, bytes of an unfinished
\* line, and the read error that follows
Tails ==
    {Stream(ls, pt, e) :
        ls \in {<<>>, <<RequestLine(GET, T_INDEX, HTTP11)>>},
        pt \in {<<>>, <<"G">>},
        e \in ReadErrors}

RECURSIVE Flatten(_)
Flatten(ss) == IF ss = <<>> THEN <<>> ELSE Head(ss) \o Flatten(Tail(ss))

RequestSeqs == UNION {[1..n -> Requests] : n \in 0..MaxReqs}

Scripts == {Stream(Flatten(rs) \o t.lines, t.partial, t.end) : rs \in RequestSeqs, t \in Tails}

NoStream == Stream(<<>>, <<>>, "EOF")
NoRead == [err |-> "none", bytesReceived |-> FALSE, url |-> <<>>]

\* the state shared by every specification: nothing accepted, nothing called
InitCommon ==
    /\ build \in Builds
    /\ DocRoot \in DocRoots
    /\ fs \in FileSystems
    /\ fsOps = 0
    /\ panicked = FALSE
    /\ pc = [c \in Conns |-> "new"]
    /\ req = [c \in Conns |-> <<>>]
    /\ res = [c \in Conns |-> <<>>]
    /\ okPath = [c \in Conns |-> <<>>]
    /\ werr = [c \in Conns |-> FALSE]
    /\ broken = [c \in Conns |-> FALSE]
    /\ out = [c \in Conns |-> <<>>]
    /\ rlog = [c \in Conns |-> <<>>]

\* one server, one peer
Init ==
    /\ InitCommon
    /\ peers = {1}
    /\ inp \in {[c \in Conns |-> IF c = 1 THEN s ELSE NoStream] : s \in Scripts}
    /\ pin = <<>>
    /\ pout = <<>>

-----------------------------------------------------------------------------
(* HandleConnection, step by step *)

\* the number of ReadRequest calls that have returned on c, and the last outcome
nread(c) == Len(rlog[c])
last(c) == IF rlog[c] = <<>> THEN NoRead ELSE rlog[c][Len(rlog[c])]

\* ListenAndServe: go s.HandleConnection(conn)
Accept(c) ==
    /\ ~panicked
    /\ c \in peers
    /\ pc[c] = "new"
    /\ pc' = [pc EXCEPT ![c] = "await"]
    /\ UNCHANGED <<build, DocRoot, fs, fsOps, peers, panicked, inp, req, res, okPath,
                   werr, broken, out, rlog, pin, pout>>

\* AfterReadError that answers an idle timeout with a bad-request response
AfterReadErrorIdle400(err, bytesReceived) ==
    IF err = "EOF" THEN [pc |-> "closed", res |-> <<>>]
    ELSE [pc |-> "wstatus", res |-> <<HandleBadRequest>>]

\* what HandleConnection does once a read has failed (src/unnamed/part_000):
\* close without a response, or make the bad-request response and write it
AfterReadError(err, bytesReceived) ==
    IF err = "EOF" THEN [pc |-> "closed", res |-> <<>>]
    ELSE IF err = "timeout" /\ ~bytesReceived THEN [pc |-> "closed", res |-> <<>>]
    ELSE [pc |-> "wstatus", res |-> <<HandleBadRequest>>]

\* the same in src/pkg/tritonhttp/response.go: on a timeout with bytes received
\* the bad-request response is made and the connection closed without Write
AfterReadErrorPkg(err, bytesReceived) ==
    IF err = "EOF" THEN [pc |-> "closed", res |-> <<>>]
    ELSE IF err = "timeout" /\ ~bytesReceived THEN [pc |-> "closed", res |-> <<>>]
    ELSE IF err = "timeout" THEN [pc |-> "closed", res |-> <<HandleBadRequest>>]
    ELSE [pc |-> "wstatus", res |-> <<HandleBadRequest>>]

AfterReadErrorOf(b, err, bytesReceived) ==
    IF b = "pkg" THEN AfterReadErrorPkg(err, bytesReceived)
    ELSE AfterReadError(err, bytesReceived)

\* the top of the loop: arm the deadline, ReadRequest, and the error branches
DoRead(c) ==
    /\ ~panicked
    /\ pc[c] = "await"
    /\ LET r == ReadRequestOf(build, inp[c]) IN
        /\ inp' = [inp EXCEPT ![c] = r.rest]
        /\ rlog' = [rlog EXCEPT ![c] =
                        Append(@, [err |-> r.err, bytesReceived |-> r.bytesReceived,
                                   url |-> IF r.err = "nil" THEN r.req[1].URL ELSE <<>>])]
        /\ req' = [req EXCEPT ![c] = r.req]
        /\ werr' = [werr EXCEPT ![c] = FALSE]
        /\ IF r.err = "nil"
           THEN /\ pc' = [pc EXCEPT ![c] = "classify"]
                /\ res' = [res EXCEPT ![c] = <<>>]
           ELSE LET a == AfterReadErrorOf(build, r.err, r.bytesReceived) IN
                /\ pc' = [pc EXCEPT ![c] = a.pc]
                /\ res' = [res EXCEPT ![c] = a.res]
    /\ UNCHANGED <<build, DocRoot, fs, fsOps, peers, panicked, okPath, broken, out,
                   pin, pout>>

\* s.HandleGoodRequest(req), up to the call of HandleOK
DoHandleGoodRequest(c) ==
    /\ ~panicked
    /\ pc[c] = "classify"
    /\ LET g == HandleGoodRequestOf(build, DocRoot, req[c][1], fs) IN
        /\ req' = [req EXCEPT ![c] = <<g.req>>]
        /\ res' = [res EXCEPT ![c] = g.res]
        /\ okPath' = [okPath EXCEPT ![c] = g.path]
        /\ panicked' = (g.kind = "panic")
        /\ pc' = [pc EXCEPT ![c] = IF g.kind = "panic" THEN "panic"
                                   ELSE IF g.kind = "ok" THEN "handleok"
                                   ELSE "wstatus"]
    /\ UNCHANGED <<build, DocRoot, fs, fsOps, peers, inp, werr, broken, out, rlog,
                   pin, pout>>

\* res.HandleOK(req, path)
DoHandleOK(c) ==
    /\ ~panicked
    /\ pc[c] = "handleok"
    /\ LET h == HandleOK(req[c][1], okPath[c], fs) IN
        /\ res' = [res EXCEPT ![c] = IF h.panic THEN @ ELSE h.res]
        /\ panicked' = h.panic
        /\ pc' = [pc EXCEPT ![c] = IF h.panic THEN "panic" ELSE "wstatus"]
    /\ UNCHANGED <<build, DocRoot, fs, fsOps, peers, inp, req, okPath, werr, broken, out,
                   rlog, pin, pout>>

\* AfterWrite without the test of the status code
AfterWriteNoStatus(c) ==
    IF req[c] = <<>> THEN "closed"
    ELSE IF req[c][1].Close THEN "closed"
    ELSE "await"

\* AfterWrite that goes round to the write, not to the read
AfterWriteAgain(c) ==
    IF req[c] = <<>> THEN "closed"
    ELSE IF req[c][1].Close \/ res[c][1].StatusCode # 200 THEN "closed"
    ELSE "wstatus"

\* after res.Write has returned: close, or go round the loop
AfterWrite(c) ==
    IF req[c] = <<>> THEN "closed"
    ELSE IF req[c][1].Close \/ res[c][1].StatusCode # 200 THEN "closed"
    ELSE "await"

\* res.WriteStatusLine(w)
DoWriteStatusLine(c) ==
    /\ ~panicked
    /\ pc[c] = "wstatus"
    /\ IF broken[c]
       THEN /\ werr' = [werr EXCEPT ![c] = TRUE]
            /\ pc' = [pc EXCEPT ![c] = AfterWrite(c)]
            /\ out' = out
       ELSE /\ out' = [out EXCEPT ![c] =
                          Append(@, [part |-> "status", n |-> Len(rlog[c]),
                                     line |-> StatusLine(res[c][1])])]
            /\ pc' = [pc EXCEPT ![c] = "wheaders"]
            /\ werr' = werr
    /\ UNCHANGED <<build, DocRoot, fs, fsOps, peers, panicked, inp, req, res, okPath,
                   broken, rlog, pin, pout>>

\* res.WriteSortedHeaders(w)
DoWriteSortedHeaders(c) ==
    /\ ~panicked
    /\ pc[c] = "wheaders"
    /\ IF broken[c]
       THEN /\ werr' = [werr EXCEPT ![c] = TRUE]
            /\ pc' = [pc EXCEPT ![c] = AfterWrite(c)]
            /\ out' = out
       ELSE /\ out' = [out EXCEPT ![c] =
                          Append(@, [part |-> "headers", n |-> Len(rlog[c]),
                                     lines |-> SortedHeaders(res[c][1])])]
            /\ pc' = [pc EXCEPT ![c] = "wbody"]
            /\ werr' = werr
    /\ UNCHANGED <<build, DocRoot, fs, fsOps, peers, panicked, inp, req, res, okPath,
                   broken, rlog, pin, pout>>

\* res.WriteBody(w), and the end of the cycle
DoWriteBody(c) ==
    /\ ~panicked
    /\ pc[c] = "wbody"
    /\ LET data == ReadFile(fs, res[c][1].FilePath) IN
       IF res[c][1].FilePath = <<>>
       THEN /\ out' = out
            /\ werr' = werr
       ELSE IF data < 0 \/ broken[c]
            THEN /\ out' = out
                 /\ werr' = [werr EXCEPT ![c] = TRUE]
            ELSE /\ out' = [out EXCEPT ![c] =
                               Append(@, [part |-> "body", n |-> Len(rlog[c]),
                                          file |-> res[c][1].FilePath, len |-> data])]
                 /\ werr' = werr
    /\ pc' = [pc EXCEPT ![c] = AfterWrite(c)]
    /\ UNCHANGED <<build, DocRoot, fs, fsOps, peers, panicked, inp, req, res, okPath,
                   broken, rlog, pin, pout>>

\* the peer resets the connection: from now on writes to it fail, while the
\* requests it has already sent are still read
PeerReset(c) ==
    /\ ~panicked
    /\ pc[c] \notin {"new", "closed", "panic"}
    /\ ~broken[c]
    /\ broken' = [broken EXCEPT ![c] = TRUE]
    /\ UNCHANGED <<build, DocRoot, fs, fsOps, peers, panicked, pc, inp, req, res, okPath,
                   werr, out, rlog, pin, pout>>

\* another process removes or truncates a served file
FsChange ==
    /\ ~panicked
    /\ fsOps < MaxFsOps
    /\ \E c \in Conns : pc[c] \notin {"new", "closed", "panic"}
    /\ \E p \in Volatile \cap DOMAIN fs :
          \/ fs' = [x \in (DOMAIN fs) \ {p} |-> fs[x]]
          \/ fs[p].size > 0 /\ fs' = [fs EXCEPT ![p].size = 0]
    /\ fsOps' = fsOps + 1
    /\ UNCHANGED <<build, DocRoot, connVars, pin, pout>>

Next ==
    \/ \E c \in Conns : Accept(c)
    \/ \E c \in Conns : DoRead(c)
    \/ \E c \in Conns : DoHandleGoodRequest(c)
    \/ \E c \in Conns : DoHandleOK(c)
    \/ \E c \in Conns : DoWriteStatusLine(c)
    \/ \E c \in Conns : DoWriteSortedHeaders(c)
    \/ \E c \in Conns : DoWriteBody(c)
    \/ \E c \in Conns : PeerReset(c)
    \/ FsChange

Spec == Init /\ [][Next]_vars

-----------------------------------------------------------------------------
(* One server, one peer, with the scheduling the Go runtime gives: a        *)
(* goroutine that can take its next step takes it in the end, and a read    *)
(* returns at the latest when its deadline expires.                         *)

LiveRequests ==
    {RequestText(T_INDEX, <<H_HOST>>),
     RequestText(T_INDEX, <<H_HOST, H_CLOSE>>),
     RequestText(T_MISSING, <<H_HOST>>)}

LiveScripts ==
    {Stream(Flatten(rs) \o t.lines, t.partial, t.end) :
        rs \in UNION {[1..n -> LiveRequests] : n \in 0..MaxReqs}, t \in Tails}

InitLive ==
    /\ InitCommon
    /\ peers = {1}
    /\ inp \in {[c \in Conns |-> IF c = 1 THEN s ELSE NoStream] : s \in LiveScripts}
    /\ pin = <<>>
    /\ pout = <<>>

\* a step of the goroutine that handles connection c
Handler(c) ==
    \/ Accept(c)
    \/ DoRead(c)
    \/ DoHandleGoodRequest(c)
    \/ DoHandleOK(c)
    \/ DoWriteStatusLine(c)
    \/ DoWriteSortedHeaders(c)
    \/ DoWriteBody(c)

\* ENABLED <<\E c \in Conns : Handler(c)>>_vars as a state predicate: a
\* connection waits to be accepted, or its goroutine is inside the loop
HandlerEnabled ==
    /\ ~panicked
    /\ \E c \in Conns : \/ c \in peers /\ pc[c] = "new"
                        \/ pc[c] \in {"await", "classify", "handleok",
                                      "wstatus", "wheaders", "wbody"}

\* weak fairness of the handlers, WF_vars(\E c \in Conns : Handler(c)), written
\* out with HandlerEnabled for the enabling condition
Fairness == []<>(~HandlerEnabled) \/ []<><<\E c \in Conns : Handler(c)>>_vars

LiveSpec == InitLive /\ [][Next]_vars /\ Fairness

-----------------------------------------------------------------------------
(* Properties of HandleConnection *)

WritePcs == {"wstatus", "wheaders", "wbody"}

\* what has been written on c in its k-th cycle
Written(c, k) == SelectSeq(out[c], LAMBDA x : x.n = k)

BadRequestLine == HTTP11 \o SP \o <<"4", "0", "0">> \o SP \o BADREQUEST

\* the one bad-request response, whole
IsBadRequest(rs) ==
    /\ Len(rs) = 2
    /\ rs[1].part = "status" /\ rs[1].line = BadRequestLine
    /\ rs[2].part = "headers"

\* C1: once the response to a parsed request has been written, the connection
\* is closed if the request's close flag is set or the status is not 200, and
\* otherwise the handler awaits the next request on the same connection
C1_CloseOrKeepAlive ==
    [][\A c \in Conns :
          (pc[c] \in WritePcs /\ pc'[c] \notin WritePcs /\ req[c] # <<>>)
          => pc'[c] = IF req[c][1].Close \/ res[c][1].StatusCode # 200
                      THEN "closed" ELSE "await"]_vars

\* a connection kept open after a 200, awaiting its second request, and one
\* closed after a 404
C1_Witness ==
    \E c \in Conns :
        /\ pc[c] = "await" /\ nread(c) = 1 /\ Len(out[c]) = 3
        /\ ~req[c][1].Close /\ res[c][1].StatusCode = 200

\* C2: a read that fails otherwise than by end-of-stream or deadline with no
\* byte consumed is answered by exactly one bad-request response, and the
\* connection is closed (a reset connection apart, on which nothing can be
\* written)
C2_BadRequestOnFailure ==
    \A c \in Conns :
        (/\ pc[c] = "closed"
         /\ last(c).err \notin {"nil", "none"}
         /\ ~(last(c).err \in ReadErrors /\ ~last(c).bytesReceived)
         /\ ~broken[c])
        => IsBadRequest(Written(c, nread(c)))

\* no byte has reached the handler in this cycle and none will: the stream is
\* at its end (end-of-stream) or the peer stays silent (deadline)
Idle(c) == pc[c] = "await" /\ inp[c].lines = <<>> /\ inp[c].partial = <<>>

\* C3: in every cycle, when the peer sends nothing before the deadline or the
\* stream ends with nothing consumed, the connection is closed in the end and
\* nothing is written in that cycle
C3_IdleClosesSilently ==
    /\ [][\A c \in Conns :
             Idle(c) => (pc'[c] \in {"await", "closed"} /\ out'[c] = out[c])]_vars
    /\ \A c \in Conns : Idle(c) ~> (pc[c] = "closed")

\* closed silently in the second cycle, after a 200 that kept the connection
C3_Witness ==
    \E c \in Conns :
        /\ pc[c] = "closed" /\ nread(c) = 2
        /\ last(c).err \in ReadErrors /\ ~last(c).bytesReceived
        /\ Len(out[c]) = 3 /\ Written(c, 2) = <<>>

\* C4: a deadline that expires after part of a request has been received is
\* answered by a bad-request response before the connection is closed
C4_BadRequestOnMidRequestTimeout ==
    \A c \in Conns :
        (/\ pc[c] = "closed"
         /\ last(c).err = "timeout" /\ last(c).bytesReceived
         /\ ~broken[c])
        => IsBadRequest(Written(c, nread(c)))

PartRank(p) == IF p = "status" THEN 1 ELSE IF p = "headers" THEN 2 ELSE 3

\* the path classification resolves the target of a parsed request to
Resolved(url) ==
    Clean(DocRoot \o <<"/">> \o (IF HasSuffix(url, <<"/">>) THEN url \o INDEXHTML ELSE url))

\* C5: the responses on a connection come in the order of the requests: what
\* is written in cycle k answers the k-th read (a bad-request response exactly
\* when that read failed, the file of the k-th target otherwise), each read is
\* answered at most once, and nothing of the response of a cycle is written
\* before its request is classified or after a later request is read
C5_ResponsesInOrder ==
    \A c \in Conns :
        /\ \A i \in DOMAIN out[c] : out[c][i].n \in 1..nread(c)
        /\ \A i, j \in DOMAIN out[c] :
              i < j => \/ out[c][i].n < out[c][j].n
                       \/ /\ out[c][i].n = out[c][j].n
                          /\ PartRank(out[c][i].part) < PartRank(out[c][j].part)
        /\ \A i \in DOMAIN out[c] :
              /\ out[c][i].part = "status"
                 => (out[c][i].line = BadRequestLine <=> rlog[c][out[c][i].n].err # "nil")
              /\ out[c][i].part = "body"
                 => out[c][i].file = Resolved(rlog[c][out[c][i].n].url)
        /\ pc[c] \in {"classify", "handleok"} => Written(c, nread(c)) = <<>>

\* two requests answered in turn on one connection
C5_Witness ==
    \E c \in Conns :
        /\ nread(c) = 2 /\ pc[c] = "closed"
        /\ Written(c, 1) # <<>> /\ Len(Written(c, 2)) = 3

\* the path lies outside the directory root
Outside(root, p) == ~(p = root \/ HasPrefix(p, root \o <<"/">>))

\* C6: a target whose cleaned join with the document root lies outside the
\* document root is answered 404, never 200
C6_OutsideRootIsNotFound ==
    \A c \in Conns :
        (/\ pc[c] \in WritePcs
         /\ last(c).err = "nil"
         /\ Outside(DocRoot, Resolved(last(c).url)))
        => res[c][1].StatusCode = statusNotFound

\* C7: every response has a Date header, and every response whose status is
\* not 200 has the header Connection: close
C7_DateAndConnectionClose ==
    \A c \in Conns :
        res[c] # <<>>
        => /\ DATE \in DOMAIN res[c][1].Header
           /\ res[c][1].StatusCode # statusOK
              => /\ CONNECTION \in DOMAIN res[c][1].Header
                 /\ res[c][1].Header[CONNECTION] = CLOSE

\* C8: a not-found response has protocol HTTP/1.1, no body, no request, and
\* exactly the headers Date and Connection: close
C8_NotFoundResponse ==
    \A c \in Conns :
        (res[c] # <<>> /\ res[c][1].StatusCode = statusNotFound)
        => /\ res[c][1].Proto = HTTP11
           /\ res[c][1].FilePath = <<>>
           /\ res[c][1].Request = <<>>
           /\ res[c][1].Header = MapSet(MapSet(EmptyMap, DATE, NOW), CONNECTION, CLOSE)

-----------------------------------------------------------------------------
(* ReadRequest called alone on a stream *)

MaxHeaders == 2
MaxCalls == 2

GETT == GET \o <<"T">>
LOWERGET == <<"g", "e", "t">>
HTTP10 == <<"H", "T", "T", "P", "/", "1", ".", "0">>
TAB == <<"\t">>

\* request lines: [space] method sep target sep version [space]
RequestLines ==
    {pre \o m \o s1 \o t \o s2 \o v \o post :
        pre \in {<<>>, SP}, post \in {<<>>, SP},
        m \in {GET, GETT, LOWERGET, <<>>},
        s1 \in {SP, SP \o SP, <<>>},
        s2 \in {SP, SP \o SP, TAB},
        t \in {<<"/">>, <<"/", "a">>, <<"a">>, <<"/", "a", "\t", "b">>, <<>>},
        v \in {HTTP11, HTTP10, HTTP11 \o <<"x">>, <<>>}}

HeaderLines ==
    {H_HOST,
     <<"h", "o", "s", "t", ":", "u">>,
     <<"H", "O", "S", "T", ":", " ", " ", "v", " ">>,
     H_CLOSE,
     <<"c", "o", "n", "n", "e", "c", "t", "i", "o", "n", ":">> \o CLOSE \o SP,
     CONNECTION \o <<":", " ">>,
     <<"c", "o", "n", "n", "e", "c", "t", "i", "o", "n", ":">> \o CLOSE,
     CONNECTION \o <<":", "\t">> \o CLOSE,
     H_KEY,
     <<"k", "e", "y", "1", ":", "4", ":", ":", "a">>,
     H_NOCOLON,
     <<"k", "?", ":", "v">>,
     <<":", "v">>,
     <<" ", "k", ":", "v">>,
     <<"k", " ", ":", "v">>}

HeaderBlocks == UNION {[1..n -> HeaderLines] : n \in 0..MaxHeaders}

\* a stream for ReadRequest: the request lines with the Host header, the header
\* blocks with a good request line, with or without the blank line that ends
\* the block, two requests one after the other, and streams that end before
\* a request is complete
ParseInputs ==
    {Stream(<<l, H_HOST, <<>>>>, <<>>, "EOF") : l \in RequestLines}
    \cup {Stream(<<RequestLine(GET, T_INDEX, HTTP11)>> \o hs \o fin, <<>>, e) :
             hs \in HeaderBlocks, fin \in {<<>>, << <<>> >>}, e \in ReadErrors}
    \cup {Stream(a \o b \o t.lines, t.partial, t.end) :
             a \in Requests, b \in Requests, t \in Tails}
    \cup Tails

InitParse ==
    /\ InitCommon
    /\ peers = {}
    /\ inp = [c \in Conns |-> NoStream]
    /\ pin \in ParseInputs
    /\ pout = <<>>

\* what the reader still holds after the calls made so far
Remaining == IF pout = <<>> THEN pin ELSE pout[Len(pout)].rest

\* req, bytesReceived, err := ReadRequest(br), again on the same reader as long
\* as the call before has returned a request
CallReadRequest ==
    /\ Len(pout) < MaxCalls
    /\ IF pout = <<>> THEN TRUE ELSE pout[Len(pout)].err = "nil"
    /\ pout' = Append(pout, ReadRequestOf(build, Remaining))
    /\ UNCHANGED <<build, DocRoot, fs, fsOps, connVars, pin>>

ParseSpec == InitParse /\ [][CallReadRequest]_vars

\* the header block of the request at the head of the stream: the lines after
\* the request line, up to the first blank line
RECURSIVE UpToBlank(_)
UpToBlank(ls) ==
    IF ls = <<>> \/ Head(ls) = <<>> THEN <<>> ELSE <<Head(ls)>> \o UpToBlank(Tail(ls))

HeaderBlock(st) == IF st.lines = <<>> THEN <<>> ELSE UpToBlank(Tail(st.lines))

\* the block is ended by a blank line
BlockEnds(st) == \E i \in 2..Len(st.lines) : st.lines[i] = <<>>

\* the name of a header line (what precedes its first colon), letters folded
RECURSIVE Fold(_)
Fold(s) == IF s = <<>> THEN <<>> ELSE <<ToLower(Head(s))>> \o Fold(Tail(s))

NameOf(l) == IF Contains(l, ":") THEN Fold(SubSeq(l, 1, Index(l, ":") - 1)) ELSE <<>>

HasHeader(st, name) ==
    \E i \in DOMAIN HeaderBlock(st) : NameOf(HeaderBlock(st)[i]) = Fold(name)

\* the value of the last header of that name: what follows the first colon,
\* without its leading spaces
HeaderValue(st, name) ==
    LET b == HeaderBlock(st)
        i == CHOOSE k \in DOMAIN b :
                 /\ NameOf(b[k]) = Fold(name)
                 /\ \A j \in DOMAIN b : j > k => NameOf(b[j]) # Fold(name)
    IN  TrimLeft(SubSeq(b[i], Index(b[i], ":") + 1, Len(b[i])))

\* C9: ReadRequest succeeds only on a header block with a Host header; then
\* the Host field has its value, and the Header map has neither a Host nor a Connection key; a
\* block that ends without a Host header gives an error and a nil request
C9_HostAndConnectionHoisted ==
    pout # <<>>
    => /\ pout[1].err = "nil"
          => /\ HasHeader(pin, HOST)
             /\ pout[1].req # <<>>
             /\ pout[1].req[1].Host = HeaderValue(pin, HOST)
             /\ HOST \notin DOMAIN pout[1].req[1].Header
             /\ CONNECTION \notin DOMAIN pout[1].req[1].Header
       /\ (BlockEnds(pin) /\ ~HasHeader(pin, HOST))
          => (pout[1].err # "nil" /\ pout[1].req = <<>>)

\* the fields of a line split on single spaces
Fields(l) == Split(l, " ")

\* the request lines the claim accepts
WellFormedRequestLine(l) ==
    /\ Len(Fields(l)) = 3
    /\ \A i \in 1..3 : /\ Fields(l)[i] # <<>>
                       /\ ~Contains(Fields(l)[i], " ")
                       /\ ~Contains(Fields(l)[i], "\t")
    /\ Fields(l)[1] = GET
    /\ HasPrefix(Fields(l)[2], <<"/">>)
    /\ Fields(l)[3] = HTTP11

\* C10: ReadRequest accepts a request line exactly when it has three non-empty
\* fields without whitespace (space or tab), separated by single spaces: GET, a
\* target that starts with "/", and HTTP/1.1; any other request line gives an
\* error and a nil request
C10_RequestLineAccepted ==
    (pout # <<>> /\ Len(pin.lines) = 3 /\ pin.lines[2] = H_HOST /\ pin.lines[3] = <<>>)
    => /\ pout[1].err = "nil" <=> WellFormedRequestLine(pin.lines[1])
       /\ pout[1].err # "nil" => pout[1].req = <<>>

-----------------------------------------------------------------------------
(* Properties of the header block of the first request on the stream *)

Parsed == pout # <<>> /\ pout[1].err = "nil"

\* C11: the Close flag of a parsed request is true exactly when the header
\* block has a Connection header (in any letter case) and the value of the
\* last one, without its leading spaces, is "close"; no Connection header, an
\* empty value, another value or "close" followed by spaces give Close = false
C11_CloseFlag ==
    Parsed
    => (pout[1].req[1].Close
        <=> (HasHeader(pin, CONNECTION) /\ HeaderValue(pin, CONNECTION) = CLOSE))

\* C12: the URL of a parsed request is the target of the request line as the
\* client sent it; "index.html" is not appended to a target that ends in "/"
C12_TargetStoredAsSent ==
    Parsed => pout[1].req[1].URL = Fields(pin.lines[1])[2]

\* what precedes the first colon of a header line
RawName(l) == SubSeq(l, 1, Index(l, ":") - 1)

NameChars == Range(LowerLetters) \cup Range(UpperLetters) \cup Digits \cup {"-"}

\* a header line with a colon whose name is empty, begins or ends with a
\* space, or has a character that is no letter, digit or hyphen
BadName(l) ==
    /\ Contains(l, ":")
    /\ \/ RawName(l) = <<>>
       \/ Head(RawName(l)) = " "
       \/ RawName(l)[Len(RawName(l))] = " "
       \/ \E i \in DOMAIN RawName(l) : RawName(l)[i] \notin NameChars

\* every line of the block is a header line with a well-formed name
GoodBlock(st) ==
    \A i \in DOMAIN HeaderBlock(st) :
        Contains(HeaderBlock(st)[i], ":") /\ ~BadName(HeaderBlock(st)[i])

\* the names of the headers of the block, letters folded
HeaderNames(st) == {NameOf(HeaderBlock(st)[i]) : i \in DOMAIN HeaderBlock(st)}

Special == {HOST, CONNECTION}

\* C13: header names are canonicalized before they are stored or compared: the
\* generic headers of a parsed request are stored under their canonical names,
\* each with the value of the last header of that name in any letter case; a
\* Connection header in any case sets the close flag; and a well-formed block
\* with a Host header in any case is accepted
C13_NamesCanonical ==
    /\ (Parsed /\ GoodBlock(pin))
       => LET h == pout[1].req[1].Header IN
          /\ (DOMAIN h) \ Special
                = {CanonicalHeaderKey(n) : n \in HeaderNames(pin)} \ Special
          /\ \A k \in (DOMAIN h) \ Special :
                HasHeader(pin, k) /\ TrimLeft(h[k]) = HeaderValue(pin, k)
          /\ (HasHeader(pin, CONNECTION) /\ HeaderValue(pin, CONNECTION) = CLOSE)
             => pout[1].req[1].Close
    /\ (/\ pout # <<>> /\ pin.lines # <<>> /\ WellFormedRequestLine(pin.lines[1])
        /\ BlockEnds(pin) /\ GoodBlock(pin) /\ HasHeader(pin, HOST))
       => pout[1].err = "nil"

\* C14: a header line is split at its first colon only; the stored value is
\* what follows that colon without its leading spaces, trailing spaces and
\* further colons kept; a header line without a colon makes ReadRequest fail
C14_SplitAtFirstColon ==
    pout # <<>>
    => /\ pout[1].err = "nil"
          => \A k \in (DOMAIN pout[1].req[1].Header) \ Special :
                /\ HasHeader(pin, k)
                /\ pout[1].req[1].Header[k] = HeaderValue(pin, k)
       /\ (\E i \in DOMAIN HeaderBlock(pin) : ~Contains(HeaderBlock(pin)[i], ":"))
          => (pout[1].err # "nil" /\ pout[1].req = <<>>)

\* C15: a header line whose name is empty, has a leading or trailing space or
\* a character other than a letter, a digit or a hyphen makes ReadRequest fail
\* with a nil request; a block of header lines whose names have only letters,
\* digits and hyphens, with a Host header, is accepted
C15_HeaderNameChecked ==
    pout # <<>>
    => /\ (\E i \in DOMAIN HeaderBlock(pin) : BadName(HeaderBlock(pin)[i]))
          => (pout[1].err # "nil" /\ pout[1].req = <<>>)
       /\ (/\ pin.lines # <<>> /\ WellFormedRequestLine(pin.lines[1])
           /\ BlockEnds(pin) /\ GoodBlock(pin) /\ HasHeader(pin, HOST))
          => pout[1].err = "nil"

-----------------------------------------------------------------------------
(* Repeated calls of ReadRequest on one reader *)

\* the lines that follow the k-th blank line
RECURSIVE AfterBlank(_, _)
AfterBlank(ls, k) ==
    IF k = 0 \/ ls = <<>> THEN ls
    ELSE AfterBlank(Tail(ls), IF Head(ls) = <<>> THEN k - 1 ELSE k)

\* the stream that begins after the k-th request
Alone(k) == Stream(AfterBlank(pin.lines, k), pin.partial, pin.end)

\* C16: a call that returns a request has consumed the stream up to and
\* including the blank line that ends the header block of that request, and
\* every call returns what it would return if its request were at the head of
\* a stream of its own
C16_ConsecutiveRequests ==
    \A i \in DOMAIN pout :
        /\ pout[i].err = "nil" => pout[i].rest = Alone(i)
        /\ pout[i] = ReadRequestOf(build, Alone(i - 1))

\* two equal requests on one stream, parsed to two equal requests
C16_Witness ==
    /\ Len(pout) = 2
    /\ pout[1].err = "nil" /\ pout[2].err = "nil"
    /\ pout[1].req = pout[2].req
    /\ pout[2].rest.lines = <<>>

-----------------------------------------------------------------------------
(* Properties of the responses and of their writing *)

\* C17: when the writing of a response has failed the connection is closed
\* and no further request is read from it, also when the close flag of the
\* request is unset and the status is 200
C17_WriteFailureIsFatal ==
    \A c \in Conns : werr[c] => pc[c] \in WritePcs \cup {"closed"}

\* C18: WriteSortedHeaders writes one line "<name>: <value>" for every entry
\* of the header map of the response, each exactly once, the names in
\* ascending order, and then one blank line
C18_SortedHeaders ==
    \A c \in Conns : \A i \in DOMAIN out[c] :
        (out[c][i].part = "headers" /\ out[c][i].n = nread(c))
        => LET ls == out[c][i].lines
               h == res[c][1].Header
               n == Len(ls) - 1
           IN  /\ n = Cardinality(DOMAIN h)
               /\ ls[n + 1] = <<>>
               /\ \A k \in DOMAIN h :
                     Cardinality({j \in 1..n : ls[j] = k \o <<":", " ">> \o h[k]}) = 1
               /\ \A j \in 1..(n - 1) : StrLess(RawName(ls[j]), RawName(ls[j + 1]))

\* the five headers of a 200 response to a request with Connection: close
C18_Witness ==
    \E c \in Conns : \E i \in DOMAIN out[c] :
        /\ out[c][i].part = "headers"
        /\ Len(out[c][i].lines) = 6
        /\ RawName(out[c][i].lines[1]) = CONNECTION
        /\ RawName(out[c][i].lines[5]) = LASTMODIFIED

\* C19: a 200 response has the protocol of its request, refers to that
\* request, has the path of the served file as its body, and has exactly the
\* headers Date, Last-Modified, Content-Type and Content-Length, with
\* Connection: close in addition exactly when the close flag of the request
\* is set
C19_OkResponse ==
    \A c \in Conns :
        (res[c] # <<>> /\ res[c][1].StatusCode = statusOK)
        => /\ res[c][1].Proto = req[c][1].Proto
           /\ res[c][1].Request = req[c]
           /\ res[c][1].FilePath = Resolved(last(c).url)
           /\ DOMAIN res[c][1].Header
                 = {DATE, LASTMODIFIED, CONTENTTYPE, CONTENTLENGTH}
                   \cup (IF req[c][1].Close THEN {CONNECTION} ELSE {})
           /\ req[c][1].Close => res[c][1].Header[CONNECTION] = CLOSE

\* a 200 response without a Connection header, and the connection kept
C19_Witness ==
    \E c \in Conns :
        /\ pc[c] = "await" /\ nread(c) = 1
        /\ res[c] # <<>> /\ res[c][1].StatusCode = statusOK
        /\ CONNECTION \notin DOMAIN res[c][1].Header
        /\ res[c][1].FilePath = ROOT \o T_INDEX

\* C20: the classification of a parsed request whose resolved path lies in
\* the document root always ends with a response: 404 when the path does not
\* exist (also when it runs through a regular file) or is a directory, 200
\* with that file otherwise; a target that ends in "/" is resolved with
\* index.html appended; the classification never aborts
C20_ClassificationTotal ==
    [][\A c \in Conns :
          /\ (pc[c] = "classify" /\ pc'[c] # "classify"
                 /\ ~Outside(DocRoot, Resolved(req[c][1].URL)))
             => LET st == Stat(fs, Resolved(req[c][1].URL)) IN
                IF st.err # "nil" \/ st.kind = "dir"
                THEN pc'[c] = "wstatus" /\ res'[c][1].StatusCode = statusNotFound
                ELSE pc'[c] = "handleok" /\ okPath'[c] = Resolved(req[c][1].URL)
          /\ (pc[c] = "handleok" /\ pc'[c] # "handleok")
             => /\ pc'[c] = "wstatus"
                /\ res'[c][1].StatusCode = statusOK
                /\ res'[c][1].FilePath = okPath[c]]_vars

-----------------------------------------------------------------------------
(* What ReadRequest tells of the bytes it has consumed *)

\* C21: a ReadRequest that fails on a read error (end-of-stream or deadline)
\* returns bytesReceived = true if at least one line was read before the
\* error and false otherwise; a ReadRequest that succeeds returns
\* bytesReceived = true, a request and no error
C21_BytesConsumed ==
    pout # <<>>
    => /\ pout[1].err \in ReadErrors
          => (pout[1].bytesReceived <=> pin.lines # <<>>)
       /\ pout[1].err = "nil"
          => (pout[1].bytesReceived /\ pout[1].req # <<>>)

-----------------------------------------------------------------------------
(* The body on the wire *)

OkLine == HTTP11 \o SP \o <<"2", "0", "0">> \o SP \o OK

\* C22: the Content-Length of a 200 response is the number of body bytes that
\* Write puts on the connection for it, whatever happens to the file between
\* HandleOK and WriteBody: once the response has been written (to a peer that
\* is still there) the status line and the headers are followed by a body of
\* exactly that length
C22_ContentLengthExact ==
    \A c \in Conns : \A k \in 1..nread(c) :
        LET w == Written(c, k) IN
        (/\ Len(w) >= 2
         /\ w[1].line = OkLine
         /\ ~broken[c]
         /\ k < nread(c) \/ pc[c] \notin WritePcs)
        => /\ Len(w) = 3
           /\ \E j \in DOMAIN w[2].lines :
                 w[2].lines[j] = CONTENTLENGTH \o <<":", " ">> \o Itoa(w[3].len)

-----------------------------------------------------------------------------
(* HandleGoodRequest called alone: pin is the request it is given, as         *)
(* ReadRequest returns it, and pout what the call leaves                      *)

ROOTD == <<"/", "w", ".", "d">>
T_TWODOTS == <<"/", "a", ".", "b">> \o DOTHTML
T_DOTDIR == <<"/", "d", ".", "x", "/", "g">> \o DOTHTML
T_ZIP == <<"/", "u", ".", "z", "i", "p">>

ClassifyRoots == {ROOT, ROOTD}

\* under the root: index.html, a.b.html, f (no extension), u.zip, the
\* directories d and d.x, and d.x/g.html; outside the root: /s.html
ClassifyFs(root) ==
    [p \in {root, root \o T_INDEX, root \o T_TWODOTS, root \o T_NODOT, root \o T_ZIP,
            root \o T_DIR, root \o <<"/", "d", ".", "x">>, root \o T_DOTDIR,
            <<"/", "s">> \o DOTHTML} |->
        IF p \in {root, root \o T_DIR, root \o <<"/", "d", ".", "x">>}
        THEN [kind |-> "dir", size |-> 0]
        ELSE [kind |-> "file", size |-> 2]]

ClassifyTargets ==
    {T_INDEX, T_SLASH, T_MISSING, T_DIR, T_NODOT, T_THROUGH, T_OUTSIDE,
     T_TWODOTS, T_DOTDIR, T_ZIP}

\* the requests ReadRequest of the build returns for these targets
ClassifyInputs(b) ==
    {ReadRequestOf(b, Stream(RequestText(t, hs), <<>>, "EOF")).req[1] :
        t \in ClassifyTargets,
        hs \in {<<H_HOST>>, <<H_HOST, H_CLOSE>>, <<H_HOST, H_KEY>>}}

InitClassify ==
    /\ build \in Builds
    /\ DocRoot \in ClassifyRoots
    /\ fs = ClassifyFs(DocRoot)
    /\ fsOps = 0
    /\ panicked = FALSE
    /\ peers = {}
    /\ pc = [c \in Conns |-> "new"]
    /\ inp = [c \in Conns |-> NoStream]
    /\ req = [c \in Conns |-> <<>>]
    /\ res = [c \in Conns |-> <<>>]
    /\ okPath = [c \in Conns |-> <<>>]
    /\ werr = [c \in Conns |-> FALSE]
    /\ broken = [c \in Conns |-> FALSE]
    /\ out = [c \in Conns |-> <<>>]
    /\ rlog = [c \in Conns |-> <<>>]
    /\ pin \in ClassifyInputs(build)
    /\ pout = <<>>

\* res := s.HandleGoodRequest(req), HandleOK included: the response (none
\* after a panic) and the request as the call leaves it
CallHandleGoodRequest ==
    /\ pout = <<>>
    /\ LET g == HandleGoodRequestOf(build, DocRoot, pin, fs)
           h == HandleOK(g.req, g.path, fs)
       IN  pout' = <<[kind |-> IF g.kind # "ok" THEN g.kind
                               ELSE IF h.panic THEN "panic" ELSE "ok",
                      res |-> IF g.kind # "ok" THEN g.res
                              ELSE IF h.panic THEN <<>> ELSE h.res,
                      req |-> g.req]>>
    /\ UNCHANGED <<build, DocRoot, fs, fsOps, connVars, pin>>

ClassifySpec == InitClassify /\ [][CallHandleGoodRequest]_vars

\* the last component of a path, and its extension: from its last dot on,
\* empty when it has no dot
FileName(p) == Split(p, "/")[Len(Split(p, "/"))]

Ext(p) ==
    LET n == FileName(p) IN
    IF ~Contains(n, ".") THEN <<>>
    ELSE LET i == CHOOSE k \in DOMAIN n : n[k] = "." /\ \A j \in DOMAIN n : j > k => n[j] # "."
         IN  SubSeq(n, i, Len(n))

\* C23: a request for a regular file in the document root is answered 200 with
\* the Content-Type the MIME table gives for the extension of the file (the
\* part of its name from the last dot on), the default type when the name has
\* no dot or the extension is unknown, whatever dots the name, a directory or
\* the document root have
C23_ContentTypeByExtension ==
    pout # <<>>
    => LET p == Resolved(pin.URL) IN
       (~Outside(DocRoot, p) /\ p \in DOMAIN fs /\ fs[p].kind = "file")
       => /\ pout[1].kind = "ok"
          /\ pout[1].res[1].StatusCode = statusOK
          /\ pout[1].res[1].Header[CONTENTTYPE] = MIMETypeByExtension(Ext(p))

\* C24: HandleGoodRequest leaves its request as it was (URL and Header), the
\* header map of the response is a map of its own, not the map of the
\* request, and a path outside the document root gives the not-found
\* response, which no later branch replaces
C24_PureClassification ==
    pout # <<>>
    => /\ pout[1].req = pin
       /\ pout[1].res # <<>> => ~pout[1].res[1].HeaderIsReqHeader
       /\ Outside(DocRoot, Resolved(pin.URL))
          => /\ pout[1].kind = "notfound"
             /\ pout[1].res[1].StatusCode = statusNotFound

-----------------------------------------------------------------------------
(* Response.Write, step by step *)

NotFoundLine == HTTP11 \o SP \o <<"4", "0", "4">> \o SP \o NOTFOUND

\* the status line of a response with the given protocol and code
ExpectedStatusLine(proto, code) ==
    IF proto = HTTP11 /\ code = 200 THEN OkLine
    ELSE IF proto = HTTP11 /\ code = 400 THEN BadRequestLine
    ELSE IF proto = HTTP11 /\ code = 404 THEN NotFoundLine
    ELSE <<>>

\* the last thing written on c
Newest(o) == o[Len(o)]

\* C25: Write puts on the connection the status line "<protocol> <code>
\* <reason>" with the reason of the table, then the header block, then the
\* whole file if the response has a file path and nothing otherwise; a step
\* that fails writes nothing, and after it no later step of this Write runs
C25_WriteInOrder ==
    [][\A c \in Conns :
          (pc[c] \in WritePcs /\ pc'[c] # pc[c])
          => IF werr'[c]
             THEN out'[c] = out[c] /\ pc'[c] \notin WritePcs
             ELSE /\ pc[c] = "wstatus"
                     => /\ pc'[c] = "wheaders"
                        /\ Len(out'[c]) = Len(out[c]) + 1
                        /\ Newest(out'[c]).part = "status"
                        /\ Newest(out'[c]).line
                             = ExpectedStatusLine(res[c][1].Proto, res[c][1].StatusCode)
                  /\ pc[c] = "wheaders"
                     => /\ pc'[c] = "wbody"
                        /\ Len(out'[c]) = Len(out[c]) + 1
                        /\ Newest(out'[c]).part = "headers"
                  /\ pc[c] = "wbody"
                     => /\ pc'[c] \notin WritePcs
                        /\ IF res[c][1].FilePath = <<>> THEN out'[c] = out[c]
                           ELSE /\ Len(out'[c]) = Len(out[c]) + 1
                                /\ Newest(out'[c]).part = "body"
                                /\ Newest(out'[c]).file = res[c][1].FilePath
                                /\ Newest(out'[c]).len = fs[res[c][1].FilePath].size]_vars

\* a Write that has failed at the body, after the status line and the
\* headers of a 200 response
C25_Witness ==
    \E c \in Conns :
        /\ werr[c] /\ ~broken[c]
        /\ res[c] # <<>> /\ res[c][1].FilePath # <<>>
        /\ Len(Written(c, nread(c))) = 2

-----------------------------------------------------------------------------
(* One server, two peers at a time *)

ConcRequests ==
    {RequestText(T_INDEX, <<H_HOST>>),
     RequestText(T_INDEX, <<H_HOST, H_CLOSE>>),
     RequestText(T_MISSING, <<H_HOST>>),
     RequestText(T_NODOT, <<H_HOST>>)}

\* one request, then end-of-stream or silence
ConcScripts == {Stream(r, <<>>, e) : r \in ConcRequests, e \in ReadErrors}

InitConc ==
    /\ InitCommon
    /\ peers = Conns
    /\ inp \in [Conns -> ConcScripts]
    /\ pin = <<>>
    /\ pout = <<>>

ConcSpec == InitConc /\ [][Next]_vars

\* the handler of c is inside its loop: the connection is accepted and not
\* closed, and its own handler has not failed
InLoop(c) == pc[c] \in {"await", "classify", "handleok"} \cup WritePcs

\* the handler of c can take its next step
CanStep(c) == InLoop(c) /\ ~panicked

\* C26: the handlers share no state that one of them changes: whatever
\* happens on the other connections, a handler that is inside its loop can
\* take its next step, so that a request that fails or cannot be classified
\* on one connection never keeps another connection from being served
C26_ConnectionsIndependent ==
    \A c \in Conns : InLoop(c) => CanStep(c)

====
